---- MODULE Spec2Model ----
(***************************************************************************)
(* PageAttentionManager (jetstream_pt/page_attention_manager.py): the      *)
(* free list of page indices, the per-slot page table and length vector,   *)
(* and the prefill insertion / export operations over a paged KV store.    *)
(***************************************************************************)
EXTENDS Integers, Sequences, FiniteSets, TLC

VARIABLES
  batch_size,                      \* self.batch_size
  paged_attention_total_num_pages, \* constructor argument
  paged_attention_page_size,       \* self.paged_attention_page_size
  max_pages_per_sequence,          \* self.max_pages_per_sequence
  seq_lens,                        \* the token counts the serving loop passes in
  unused_pages,                    \* self.unused_pages, a FIFO queue
  page_indices,                    \* self.page_indices[slot][row]
  lengths,                         \* self.lengths[slot]
  last,                            \* the last call: its name, its slot, and what
                                   \* it returned or raised
  live,                            \* history: rows of each slot written by a
                                   \* reservation since the slot's last release
  calls,                           \* history: the number of calls made
  streak                           \* history: the run of get_page_token_indices
                                   \* calls, each passed the recorded lengths,
                                   \* that the last call ended: the vector the
                                   \* first was passed, and how many there were

vars == << batch_size, paged_attention_total_num_pages,
           paged_attention_page_size, max_pages_per_sequence, seq_lens,
           unused_pages, page_indices, lengths, last, live, calls,
           streak >>

config == << batch_size, paged_attention_total_num_pages,
             paged_attention_page_size, max_pages_per_sequence, seq_lens >>

(***************************************************************************)
(* Bounds of the model.                                                    *)
(***************************************************************************)
\* the largest token count passed in by the small deployments
MaxSeqLen == 5
\* how many reserve / grow / release calls the serving loop makes
MaxCalls == 3
\* how many reserve / grow / release calls a loop that keeps to the slot
\* lifecycle makes
MaxLifecycle == 4
\* how many calls the serving loop makes around a decode step
MaxSteps == 2
\* how many reserve / grow / step calls the loop that uses every method makes
MaxMethods == 2
\* the heads of the K and V tensors that are padded
KvHeads == 2

(***************************************************************************)
(* The deployments explored: constructor arguments and workload lengths.   *)
(***************************************************************************)
Deployments ==
  { [batch_size |-> 2, total |-> 1, page_size |-> 2, max_pages |-> 2,
     seq_lens |-> 0 .. MaxSeqLen],
    [batch_size |-> 2, total |-> 3, page_size |-> 2, max_pages |-> 2,
     seq_lens |-> 0 .. MaxSeqLen],
    [batch_size |-> 2, total |-> 8, page_size |-> 4, max_pages |-> 3,
     seq_lens |-> {0, 4, 5, 8}] }

Slots == 0 .. batch_size - 1
Rows == 0 .. max_pages_per_sequence - 1
Pages == 0 .. paged_attention_total_num_pages - 1

Min(a, b) == IF a < b THEN a ELSE b

\* range(n) as a sequence of queue entries
Range(n) == [i \in 1 .. n |-> i - 1]

SeqToSet(s) == { s[i] : i \in DOMAIN s }

\* the exceptions a call can raise
Empty == "queue.Empty"
ValueError == "ValueError"

\* a call that returned ret, a call that returned None, a call that raised exc
Returned(name, slot, ret) ==
  [op |-> name, slot |-> slot, raised |-> "", ret |-> ret]
ReturnedNone(name, slot) == Returned(name, slot, [none |-> TRUE])
Raised(name, slot, exc) ==
  [op |-> name, slot |-> slot, raised |-> exc, ret |-> [none |-> TRUE]]

\* the tokens of the KV tensors: one head, one feature, K and V alike
PadToken == 0
BlankToken == -1

(***************************************************************************)
(* __init__                                                                *)
(***************************************************************************)
Init ==
  /\ \E d \in Deployments :
       /\ batch_size = d.batch_size
       /\ paged_attention_total_num_pages = d.total
       /\ paged_attention_page_size = d.page_size
       /\ max_pages_per_sequence = d.max_pages
       /\ seq_lens = d.seq_lens
       /\ unused_pages = Range(d.total)
       /\ page_indices = [s \in 0 .. d.batch_size - 1 |->
                            [r \in 0 .. d.max_pages - 1 |-> d.total - 1]]
       /\ lengths = [s \in 0 .. d.batch_size - 1 |-> 0]
       /\ live = [s \in 0 .. d.batch_size - 1 |-> {}]
  /\ last = ReturnedNone("__init__", -1)
  /\ calls = 0
  /\ streak = [from |-> lengths, n |-> 0]

(***************************************************************************)
(* reserve_pages_insert                                                    *)
(***************************************************************************)
\* a slip: the partly filled last page is not counted
InsertNumPagesFloor(seq_len) == seq_len \div paged_attention_page_size

\* num_pages of reserve_pages_insert
InsertNumPages(seq_len) ==
  IF seq_len % paged_attention_page_size = 0
  THEN seq_len \div paged_attention_page_size
  ELSE seq_len \div paged_attention_page_size + 1

\* a slip: the length is written to every slot
SetLengthOfAll(slot, seq_len) == [s \in Slots |-> seq_len]

\* self.lengths.at[slot].set(seq_len)
SetLength(slot, seq_len) == [lengths EXCEPT ![slot] = seq_len]

\* a slip: the newest entries of the queue are handed out
TakenNewest(n) ==
  SubSeq(unused_pages, Len(unused_pages) - n + 1, Len(unused_pages))

\* the pages [unused_pages.get() for _ in range(n)] takes, oldest first
Taken(n) == SubSeq(unused_pages, 1, n)

\* the queue after n successful get() calls
AfterGet(n) == SubSeq(unused_pages, n + 1, Len(unused_pages))

\* self.page_indices.at[slot, :num_pages].set(indices)
SetRowPrefix(slot, indices) ==
  [page_indices EXCEPT ![slot] =
     [r \in Rows |-> IF r < Len(indices) THEN indices[r + 1] ELSE @[r]]]

reserve_pages_insert(slot, seq_len) ==
  LET num_pages == InsertNumPages(seq_len)
      have == Len(unused_pages)
  IN  /\ lengths' = SetLength(slot, seq_len)
      /\ IF have < num_pages
         THEN \* queue.Empty out of the list comprehension: the pages taken
              \* so far are dropped with the list
              /\ unused_pages' = <<>>
              /\ UNCHANGED << page_indices, live >>
              /\ last' = Raised("reserve_pages_insert", slot, Empty)
         ELSE IF num_pages > max_pages_per_sequence
         THEN \* .set() cannot broadcast num_pages values into the shorter row
              /\ unused_pages' = AfterGet(num_pages)
              /\ UNCHANGED << page_indices, live >>
              /\ last' = Raised("reserve_pages_insert", slot, ValueError)
         ELSE /\ unused_pages' = AfterGet(num_pages)
              /\ page_indices' = SetRowPrefix(slot, Taken(num_pages))
              /\ live' = [live EXCEPT ![slot] = @ \cup (0 .. num_pages - 1)]
              /\ last' = Returned("reserve_pages_insert", slot,
                                   [num_pages |-> num_pages,
                                    pages |-> [i \in 1 .. num_pages |->
                                                 page_indices'[slot][i - 1]]])
      /\ UNCHANGED config

(***************************************************************************)
(* reserve_pages_decode, fill_new_pages                                    *)
(***************************************************************************)
\* the test of reserve_pages_decode
AtPageBoundary(seq_len) ==
  seq_len > 0 /\ seq_len % paged_attention_page_size = 0

\* a slip: the page is written to the row of every slot
SetEntryOfAll(table, slot, num_pages, index) ==
  IF num_pages \in Rows
  THEN [s \in Slots |-> [table[s] EXCEPT ![num_pages] = index]]
  ELSE table

\* table.at[slot, num_pages].set(index): an index past the row is dropped
SetEntry(table, slot, num_pages, index) ==
  IF num_pages \in Rows
  THEN [table EXCEPT ![slot][num_pages] = index]
  ELSE table

\* the state after reserve_pages_decode(slot, seq_len) in state st
Decode(st, slot, seq_len) ==
  IF st.status # "ok" \/ ~AtPageBoundary(seq_len)
  THEN st
  ELSE IF st.queue = <<>>
  THEN [st EXCEPT !.status = "Empty"]
  ELSE LET num_pages == seq_len \div paged_attention_page_size
       IN  [queue |-> Tail(st.queue),
            table |-> SetEntry(st.table, slot, num_pages, Head(st.queue)),
            live |-> IF num_pages \in Rows
                     THEN [st.live EXCEPT ![slot] = @ \cup {num_pages}]
                     ELSE st.live,
            status |-> "ok"]

Current == [queue |-> unused_pages, table |-> page_indices, live |-> live,
            status |-> "ok"]

reserve_pages_decode(slot, seq_len) ==
  LET st == Decode(Current, slot, seq_len)
  IN  /\ unused_pages' = st.queue
      /\ page_indices' = st.table
      /\ live' = st.live
      /\ last' = IF st.status = "ok"
                 THEN ReturnedNone("reserve_pages_decode", slot)
                 ELSE Raised("reserve_pages_decode", slot, Empty)
      /\ UNCHANGED << config, lengths >>

\* for slot in range(from, batch_size): reserve_pages_decode(slot, lens[slot])
RECURSIVE FillFrom(_, _, _)
FillFrom(st, lens, slot) ==
  IF slot >= batch_size
  THEN st
  ELSE FillFrom(Decode(st, slot, lens[slot]), lens, slot + 1)

fill_new_pages(lens) ==
  LET st == FillFrom(Current, lens, 0)
  IN  /\ unused_pages' = st.queue
      /\ page_indices' = st.table
      /\ live' = st.live
      /\ last' = IF st.status = "ok"
                 THEN ReturnedNone("fill_new_pages", -1)
                 ELSE Raised("fill_new_pages", -1, Empty)
      /\ UNCHANGED << config, lengths >>

(***************************************************************************)
(* get_page_token_indices                                                  *)
(***************************************************************************)
\* a slip: the entry before the one asked for is read
ReadEntryBefore(slot, row) ==
  page_indices[slot][IF row > 0 THEN Min(row, max_pages_per_sequence) - 1
                     ELSE 0]

\* self.page_indices[slot, row]: a read past the row is clamped to its end
ReadEntry(slot, row) ==
  page_indices[slot][Min(row, max_pages_per_sequence - 1)]

\* a slip: the offset is not advanced
SameOffset(offset) == offset

\* offset += self.paged_attention_page_size
NextOffset(offset) == offset + paged_attention_page_size

\* the loop body from slot on: the three parallel lists
RECURSIVE TokenIndices(_, _, _)
TokenIndices(lens, slot, offset) ==
  IF slot >= batch_size
  THEN [update_page_indices |-> <<>>, token_scale_indices |-> <<>>,
        batch_slots |-> <<>>]
  ELSE IF lens[slot] = 0
  THEN TokenIndices(lens, slot + 1, offset)
  ELSE LET seq_len == lens[slot]
           num_pages == seq_len \div paged_attention_page_size + 1
           token_pos == seq_len % paged_attention_page_size
           page_index == ReadEntry(slot, num_pages - 1)
           rest == TokenIndices(lens, slot + 1, NextOffset(offset))
       IN  [update_page_indices |-> <<page_index>> \o rest.update_page_indices,
            token_scale_indices |->
              <<offset + token_pos>> \o rest.token_scale_indices,
            batch_slots |-> <<slot>> \o rest.batch_slots]

\* a slip: the slots with lens = 0 are advanced too
AdvanceOfAll(lens) == [s \in Slots |-> lens[s] + 1]

\* jnp.where(lens == 0, 0, lens + 1)
Advance(lens) == [s \in Slots |-> IF lens[s] = 0 THEN 0 ELSE lens[s] + 1]

get_page_token_indices(lens) ==
  /\ last' = Returned("get_page_token_indices", -1, TokenIndices(lens, 0, 0))
  /\ lengths' = Advance(lens)
  /\ UNCHANGED << config, unused_pages, page_indices, live >>

(***************************************************************************)
(* free_pages_resource                                                     *)
(***************************************************************************)
\* a slip: only the entries of the slot's live rows are released
ReleasedLive(slot, i) ==
  [k \in 1 .. Cardinality(live[slot]) |-> page_indices[slot][k - 1]]

\* the rows the loop visits before `if index < 0: break`
RECURSIVE Released(_, _)
Released(slot, i) ==
  IF i >= max_pages_per_sequence \/ page_indices[slot][i] < 0
  THEN <<>>
  ELSE <<page_indices[slot][i]>> \o Released(slot, i + 1)

\* self.page_indices.at[slot, :].set(jnp.asarray([0]))
ClearRow(slot) == [page_indices EXCEPT ![slot] = [r \in Rows |-> 0]]

free_pages_resource(slot) ==
  /\ unused_pages' = unused_pages \o Released(slot, 0)
  /\ page_indices' = ClearRow(slot)
  /\ live' = [live EXCEPT ![slot] = {}]
  /\ last' = ReturnedNone("free_pages_resource", slot)
  /\ UNCHANGED << config, lengths >>

(***************************************************************************)
(* pad_sequences, prefill_cache_padding                                    *)
(***************************************************************************)
\* a K or V tensor [1, num_heads, seq_len, 1]: for each head its tokens
Tensor(base, seq_len) ==
  [h \in 1 .. KvHeads |-> [i \in 1 .. seq_len |-> base + 100 * h + i]]

\* the caches of one layer, List[Tuple[K, V]], of a prefill of seq_len tokens
LayerCaches(seq_len) ==
  { << [k |-> Tensor(base, seq_len), v |-> Tensor(base + 1000, seq_len)] >> :
      base \in {0, 10} }

\* a slip: the pad is put in front of the tokens
pad_front(array, pad_width) ==
  [h \in DOMAIN array |-> [i \in 1 .. pad_width |-> PadToken] \o array[h]]

\* jnp.pad(array, [(0, 0), (0, 0), (0, pad_width), (0, 0)], mode="constant")
pad_sequences(array, pad_width) ==
  [h \in DOMAIN array |-> array[h] \o [i \in 1 .. pad_width |-> PadToken]]

prefill_cache_padding(caches, seq_len, num_pages) ==
  LET pad_width == num_pages * paged_attention_page_size - seq_len
  IN  /\ last' = IF pad_width = 0
                 THEN Returned("prefill_cache_padding", last.slot,
                               [caches |-> caches])
                 ELSE IF pad_width < 0
                 THEN \* jnp.pad refuses a negative width
                      Raised("prefill_cache_padding", last.slot, ValueError)
                 ELSE Returned("prefill_cache_padding", last.slot,
                               [caches |->
                                  [l \in DOMAIN caches |->
                                     [k |-> pad_sequences(caches[l].k,
                                                          pad_width),
                                      v |-> pad_sequences(caches[l].v,
                                                          pad_width)]]])
      /\ UNCHANGED << config, unused_pages, page_indices, lengths, live, calls,
                      streak >>

\* the caller pads the prefill of the slot it has just reserved
PadReserved ==
  /\ last.op = "reserve_pages_insert"
  /\ last.raised = ""
  /\ \E caches \in LayerCaches(lengths[last.slot]),
        num_pages \in 0 .. max_pages_per_sequence :
       prefill_cache_padding(caches, lengths[last.slot], num_pages)

(***************************************************************************)
(* insert_prefill_cache                                                    *)
(***************************************************************************)
\* tep_kv.at[:, : k.shape[1], :].set(k)
ScratchWith(tep_kv, k) ==
  [i \in 1 .. Len(tep_kv) |-> IF i <= Len(k) THEN k[i] ELSE tep_kv[i]]

\* jnp.reshape(k, (kv_heads, -1, page_size, dim)): the page blocks in order
PagedCache(k) ==
  [j \in 1 .. Len(k) \div paged_attention_page_size |->
     SubSeq(k, (j - 1) * paged_attention_page_size + 1,
            j * paged_attention_page_size)]

\* for each page written, which block's write lands last: with a page index
\* repeated in update_indexes the scatter keeps any one of its blocks
Winners(update_indexes) ==
  { w \in [SeqToSet(update_indexes) -> DOMAIN update_indexes] :
      \A p \in DOMAIN w : update_indexes[w[p]] = p }

\* cache.at[:, update_indexes, :, :].set(new_entry)
Insert(cache, update_indexes, new_entry, w) ==
  [p \in DOMAIN cache |-> IF p \in DOMAIN w THEN new_entry[w[p]] ELSE cache[p]]

\* the decode store before any insertion, and the stores the caller holds
BlankStore == [p \in Pages |-> [i \in 1 .. paged_attention_page_size |-> BlankToken]]

Held ==
  IF last.op = "insert_prefill_cache" THEN {last.ret.caches} ELSE {BlankStore}

\* the prefill tensors of seq_len tokens
Prefills(seq_len) == { [i \in 1 .. seq_len |-> base + i] : base \in {0, 10} }

\* the caller inserts the prefill of the slot it has just reserved, into the
\* pages reserve_pages_insert returned, with a padded scratch of that size
insert_prefill_cache(prefill_caches, decode_caches, update_indexes, tep_kv) ==
  /\ \E w \in Winners(update_indexes) :
       last' = [op |-> "insert_prefill_cache", slot |-> last.slot,
                raised |-> "", prefill |-> prefill_caches,
                ret |-> [caches |->
                           Insert(decode_caches, update_indexes,
                                  PagedCache(ScratchWith(tep_kv,
                                                         prefill_caches)),
                                  w)]]
  /\ UNCHANGED << config, unused_pages, page_indices, lengths, live, calls,
                  streak >>

InsertReserved ==
  /\ last.op = "reserve_pages_insert"
  /\ last.raised = ""
  /\ \E prefill_caches \in Prefills(lengths[last.slot]),
        decode_caches \in Held :
       insert_prefill_cache(
         prefill_caches, decode_caches, last.ret.pages,
         [i \in 1 .. last.ret.num_pages * paged_attention_page_size |->
            PadToken])

(***************************************************************************)
(* get_compress_kv_cache                                                   *)
(***************************************************************************)
\* cache[:, indices, :, :].reshape((head, -1, dim))
Selected(cache, indices) ==
  [i \in 1 .. max_pages_per_sequence * paged_attention_page_size |->
     cache[indices[(i - 1) \div paged_attention_page_size]]
          [((i - 1) % paged_attention_page_size) + 1]]

\* selected_cache[:, 0:lens, :]
_compress_cache(cache, lens, indices) ==
  SubSeq(Selected(cache, indices), 1, Min(lens, Len(Selected(cache, indices))))

get_compress_kv_cache(decode_caches, slot) ==
  /\ last' = Returned("get_compress_kv_cache", slot,
                      [tokens |-> _compress_cache(decode_caches, lengths[slot],
                                                  page_indices[slot])])
  /\ UNCHANGED << config, unused_pages, page_indices, lengths, live, calls,
                  streak >>

(***************************************************************************)
(* The serving loop: any reserve / grow / release call, any arguments.     *)
(***************************************************************************)
\* a call that is not get_page_token_indices ends the run; a call of
\* get_page_token_indices(lens) continues it when lens is the recorded
\* lengths and the call before was one too, and starts a new one otherwise
Broken == streak' = [from |-> [s \in Slots |-> 0], n |-> 0]

Run(lens) ==
  streak' = IF last.op = "get_page_token_indices" /\ lens = lengths
            THEN [from |-> streak.from, n |-> streak.n + 1]
            ELSE [from |-> lens, n |-> 1]

Called == calls < MaxCalls /\ calls' = calls + 1 /\ Broken

Next ==
  \/ \E slot \in Slots, seq_len \in seq_lens :
       Called /\ reserve_pages_insert(slot, seq_len)
  \/ \E slot \in Slots, seq_len \in seq_lens :
       Called /\ reserve_pages_decode(slot, seq_len)
  \/ \E lens \in [Slots -> seq_lens] : Called /\ fill_new_pages(lens)
  \/ \E slot \in Slots : Called /\ free_pages_resource(slot)

Spec == Init /\ [][Next]_vars

(***************************************************************************)
(* A serving loop that keeps to the slot lifecycle: it reserves a slot     *)
(* only when the slot holds no pages, never asks for more pages than the   *)
(* pool or the row holds, grows and releases only slots that hold pages.   *)
(***************************************************************************)
Cycled == calls < MaxLifecycle /\ calls' = calls + 1 /\ Broken

Fits(seq_len) ==
  /\ InsertNumPages(seq_len) <= Len(unused_pages)
  /\ InsertNumPages(seq_len) <= max_pages_per_sequence

Grows(seq_len) ==
  AtPageBoundary(seq_len) =>
    /\ unused_pages # <<>>
    /\ seq_len \div paged_attention_page_size \in Rows

ReserveIdle ==
  \E slot \in Slots, seq_len \in seq_lens :
     /\ live[slot] = {}
     /\ Fits(seq_len)
     /\ Cycled
     /\ reserve_pages_insert(slot, seq_len)

GrowReserved ==
  \E slot \in Slots, seq_len \in seq_lens :
     /\ live[slot] # {}
     /\ Grows(seq_len)
     /\ Cycled
     /\ reserve_pages_decode(slot, seq_len)

ReleaseReserved ==
  \E slot \in Slots :
     /\ live[slot] # {}
     /\ Cycled
     /\ free_pages_resource(slot)

NextLifecycle == ReserveIdle \/ GrowReserved \/ ReleaseReserved

SpecLifecycle == Init /\ [][NextLifecycle]_vars

(***************************************************************************)
(* The lifecycle with the prefill insertion and the export of a slot.      *)
(***************************************************************************)
Export ==
  \E slot \in Slots, decode_caches \in Held :
     get_compress_kv_cache(decode_caches, slot)

NextCache == ReserveIdle \/ ReleaseReserved \/ InsertReserved \/ Export

SpecCache == Init /\ [][NextCache]_vars

(***************************************************************************)
(* The decode step: reservation, growth and the step indexer.              *)
(***************************************************************************)
Stepped == calls < MaxSteps /\ calls' = calls + 1

NextStep ==
  \/ \E slot \in Slots, seq_len \in seq_lens :
       Stepped /\ Broken /\ reserve_pages_insert(slot, seq_len)
  \/ \E lens \in [Slots -> seq_lens] :
       Stepped /\ Broken /\ fill_new_pages(lens)
  \/ \E lens \in [Slots -> seq_lens] :
       Stepped /\ Run(lens) /\ get_page_token_indices(lens)

SpecStep == Init /\ [][NextStep]_vars

(***************************************************************************)
(* What the claims speak of.                                               *)
(***************************************************************************)
CeilDiv(a, b) == (a + b - 1) \div b

\* the pages a slot holds in its live rows, and those of all slots
LivePagesOf(slot) == { page_indices[slot][r] : r \in live[slot] }
LivePages == UNION { LivePagesOf(slot) : slot \in Slots }
FreePages == SeqToSet(unused_pages)

\* a call on slot leaves the rows, lengths and live pages of the others alone
OthersIntact(slot) ==
  \A other \in Slots \ {slot} :
     /\ page_indices'[other] = page_indices[other]
     /\ lengths'[other] = lengths[other]
     /\ live'[other] = live[other]

\* C1: between calls, the pages live in some slot's row and the pages of
\* the free pool are disjoint, together they are exactly 0 .. total_pages-1,
\* and no index is in the pool twice.
C1_LiveAndFreePartition ==
  /\ LivePages \cap FreePages = {}
  /\ LivePages \cup FreePages = Pages
  /\ Cardinality(FreePages) = Len(unused_pages)

\* C2: when every slot is reclaimed before it is reserved again, no page is
\* live in two slots, nor at two row positions of one slot.
C2_NoPageOwnedTwice ==
  \A s1 \in Slots, s2 \in Slots :
     \A r1 \in live[s1], r2 \in live[s2] :
        (s1 # s2 \/ r1 # r2) => page_indices[s1][r1] # page_indices[s2][r2]

\* what C3 says reserve_pages_insert(slot, seq_len) does
ReservesCeil(slot, seq_len) ==
  LET n == CeilDiv(seq_len, paged_attention_page_size)
  IN  /\ last'.raised = ""
      /\ unused_pages' = SubSeq(unused_pages, n + 1, Len(unused_pages))
      /\ Len(unused_pages') = Len(unused_pages) - n
      /\ \A i \in 1 .. n :
            /\ i - 1 \in Rows
            /\ page_indices'[slot][i - 1] = unused_pages[i]
      /\ lengths'[slot] = seq_len
      /\ last'.ret = [num_pages |-> n, pages |-> SubSeq(unused_pages, 1, n)]

\* C3 as stated: whenever the pool holds enough pages,
\* reserve_pages_insert(slot, seq_len) takes exactly ceil(seq_len / page_size)
\* pages from the pool, writes them to the head of the slot's row, sets the
\* slot's length and returns the count and the pages.
C3_ReserveTakesCeilPages_AsStated ==
  [][\A slot \in Slots, seq_len \in seq_lens :
       ( /\ reserve_pages_insert(slot, seq_len)
         /\ CeilDiv(seq_len, paged_attention_page_size) <= Len(unused_pages) )
       => ReservesCeil(slot, seq_len)]_vars

\* C3 (amended): whenever the pool holds enough pages and the row is long
\* enough for them (ceil(seq_len / page_size) <= max_pages_per_sequence),
\* reserve_pages_insert(slot, seq_len) takes exactly ceil(seq_len / page_size)
\* pages from the pool, writes them to the head of the slot's row, sets the
\* slot's length and returns the count and the pages.
C3_ReserveTakesCeilPages ==
  [][\A slot \in Slots, seq_len \in seq_lens :
       ( /\ reserve_pages_insert(slot, seq_len)
         /\ CeilDiv(seq_len, paged_attention_page_size) <= Len(unused_pages)
         /\ CeilDiv(seq_len, paged_attention_page_size)
              <= max_pages_per_sequence )
       => ReservesCeil(slot, seq_len)]_vars

\* a reservation of two pages for three tokens, and one of no page for none
C3_Witness ==
  /\ last.op = "reserve_pages_insert"
  /\ last.raised = ""
  /\ paged_attention_page_size = 2
  /\ lengths[last.slot] = 3
  /\ last.ret.num_pages = 2
  /\ live[last.slot] = {0, 1}

\* C4: a reserve_pages_decode(slot, new_len) that returns has taken exactly
\* one page from the pool and written it at row new_len / page_size when
\* new_len is a positive multiple of page_size, and has otherwise left the
\* pool, the page table and the lengths as they were.
C4_DecodeTakesOnePageAtBoundary ==
  [][\A slot \in Slots, new_len \in seq_lens :
       (reserve_pages_decode(slot, new_len) /\ last'.raised = "")
       => IF new_len > 0 /\ new_len % paged_attention_page_size = 0
          THEN /\ unused_pages' = Tail(unused_pages)
               /\ new_len \div paged_attention_page_size \in Rows
               /\ page_indices'[slot][new_len \div paged_attention_page_size]
                    = Head(unused_pages)
          ELSE UNCHANGED << unused_pages, page_indices, lengths >>]_vars

\* C5: with too few pages in the pool, reserve_pages_insert and
\* reserve_pages_decode are not held up: they raise the out-of-pages error,
\* and the rows, lengths and live pages of every other slot stay as they are.
C5_ExhaustionFailsAtOnce ==
  [][/\ \A slot \in Slots, seq_len \in seq_lens :
          Len(unused_pages) < CeilDiv(seq_len, paged_attention_page_size)
          => /\ ENABLED reserve_pages_insert(slot, seq_len)
             /\ ENABLED reserve_pages_decode(slot, seq_len)
     /\ \A slot \in Slots, seq_len \in seq_lens :
          ( /\ Len(unused_pages)
                 < CeilDiv(seq_len, paged_attention_page_size)
            /\ last'.op = "reserve_pages_insert"
            /\ reserve_pages_insert(slot, seq_len) )
          => (last'.raised = Empty /\ OthersIntact(slot))
     /\ \A slot \in Slots, new_len \in seq_lens :
          ( /\ unused_pages = <<>>
            /\ new_len > 0
            /\ new_len % paged_attention_page_size = 0
            /\ last'.op = "reserve_pages_decode"
            /\ reserve_pages_decode(slot, new_len) )
          => (last'.raised = Empty /\ OthersIntact(slot))]_vars

\* total_pages = 1: slot 0 holds the page, reserving slot 1 has failed
C5_Witness ==
  /\ paged_attention_total_num_pages = 1
  /\ last = Raised("reserve_pages_insert", 1, Empty)
  /\ lengths[1] >= 1
  /\ lengths[0] >= 1
  /\ live[0] = {0}
  /\ page_indices[0][0] = 0

\* C6: a reserve_pages_insert, reserve_pages_decode or fill_new_pages that
\* fails for want of pages leaves the pool, every row and every length as
\* they were before the call.
C6_FailureChangesNothing ==
  [][last'.raised = Empty
       => UNCHANGED << unused_pages, page_indices, lengths >>]_vars

\* C7: get_page_token_indices(lens) returns one entry for each slot with
\* lens > 0 and none for the others, in increasing slot order, and no two
\* entries have the same write offset.
C7_OneEntryPerActiveSlot ==
  [][\A lens \in [Slots -> seq_lens] :
       get_page_token_indices(lens)
       => LET ret == last'.ret
              n == Len(ret.batch_slots)
          IN  /\ Len(ret.update_page_indices) = n
              /\ Len(ret.token_scale_indices) = n
              /\ SeqToSet(ret.batch_slots) = { s \in Slots : lens[s] > 0 }
              /\ \A i \in 1 .. n, j \in 1 .. n :
                    i < j =>
                      /\ ret.batch_slots[i] < ret.batch_slots[j]
                      /\ ret.token_scale_indices[i]
                           # ret.token_scale_indices[j]]_vars

\* two active slots at the same position of their pages
C7_Witness ==
  /\ last.op = "get_page_token_indices"
  /\ last.ret.batch_slots = << 0, 1 >>
  /\ lengths[0] = lengths[1]
  /\ Len(last.ret.token_scale_indices) = 2

\* C8: the export of a slot right after its reservation and the insertion
\* of its prefill into the pages reserved is the prefill, token for token.
C8_ExportReturnsPrefill ==
  [][\A slot \in Slots, decode_caches \in Held :
       ( /\ last.op = "insert_prefill_cache"
         /\ last.slot = slot
         /\ get_compress_kv_cache(decode_caches, slot) )
       => last'.ret.tokens = last.prefill]_vars

\* the state the concrete scenario of C9 starts in
Scenario ==
  /\ paged_attention_page_size = 4
  /\ paged_attention_total_num_pages = 8
  /\ max_pages_per_sequence = 3
  /\ batch_size = 2

\* C9: the pool of a fresh manager is 0, 1, 2, ... in this order; every
\* reservation takes the oldest entries of the pool, in order; and with
\* page_size 4, total_pages 8, max_pages_per_sequence 3, batch_size 2:
\* reserving 5 tokens for slot 0 assigns pages 0, 1 and leaves 2..7, reserving
\* 4 tokens for slot 1 then assigns page 2, and reserve_pages_decode(0, 8)
\* then puts page 3 at row 2 of slot 0.
C9_OldestPageFirst ==
  [][/\ calls = 0 => unused_pages = [i \in 1 .. Cardinality(Pages) |-> i - 1]
     /\ \A slot \in Slots, seq_len \in seq_lens :
          (reserve_pages_insert(slot, seq_len) /\ last'.raised = "")
          => /\ last'.ret.pages = SubSeq(unused_pages, 1, last'.ret.num_pages)
             /\ unused_pages' = SubSeq(unused_pages, last'.ret.num_pages + 1,
                                       Len(unused_pages))
     /\ \A slot \in Slots, seq_len \in seq_lens :
          ( /\ reserve_pages_decode(slot, seq_len)
            /\ last'.raised = ""
            /\ unused_pages' # unused_pages )
          => /\ unused_pages' = Tail(unused_pages)
             /\ seq_len \div paged_attention_page_size \in Rows
                  => page_indices'[slot][seq_len \div paged_attention_page_size]
                       = Head(unused_pages)
     /\ (Scenario /\ calls = 0 /\ reserve_pages_insert(0, 5))
          => /\ last'.ret = [num_pages |-> 2, pages |-> << 0, 1 >>]
             /\ page_indices'[0][0] = 0
             /\ page_indices'[0][1] = 1
             /\ unused_pages' = << 2, 3, 4, 5, 6, 7 >>
     /\ ( /\ Scenario
          /\ calls = 1
          /\ last = Returned("reserve_pages_insert", 0,
                             [num_pages |-> 2, pages |-> << 0, 1 >>])
          /\ lengths[0] = 5
          /\ reserve_pages_insert(1, 4) )
          => /\ last'.ret = [num_pages |-> 1, pages |-> << 2 >>]
             /\ page_indices'[1][0] = 2
     /\ ( /\ Scenario
          /\ calls = 2
          /\ last = Returned("reserve_pages_insert", 1,
                             [num_pages |-> 1, pages |-> << 2 >>])
          /\ lengths = [s \in Slots |-> IF s = 0 THEN 5 ELSE 4]
          /\ unused_pages = << 3, 4, 5, 6, 7 >>
          /\ reserve_pages_decode(0, 8) )
          => /\ page_indices'[0][2] = 3
             /\ unused_pages' = << 4, 5, 6, 7 >>]_vars

\* the end of the scenario
C9_Witness ==
  /\ Scenario
  /\ calls = 3
  /\ last = ReturnedNone("reserve_pages_decode", 0)
  /\ lengths = [s \in Slots |-> IF s = 0 THEN 5 ELSE 4]
  /\ page_indices[0] = [r \in Rows |-> IF r = 2 THEN 3 ELSE r]
  /\ page_indices[1] = [r \in Rows |-> IF r = 0 THEN 2 ELSE 7]
  /\ unused_pages = << 4, 5, 6, 7 >>

\* C10: after free_pages_resource(slot) no entry of the slot's row is a page
\* some slot holds, the slot's length is 0, and the rows and lengths of the
\* other slots are as before.
C10_ReleaseEmptiesSlot ==
  [][\A slot \in Slots :
       free_pages_resource(slot)
       => /\ \A r \in Rows : page_indices'[slot][r] \notin LivePages'
          /\ lengths'[slot] = 0
          /\ OthersIntact(slot)]_vars

(***************************************************************************)
(* The per-step protocol of the serving loop: a slot that holds no pages   *)
(* is admitted with reserve_pages_insert, for no more pages than the pool  *)
(* and the row hold; a decode step is                                      *)
(* fill_new_pages(lens) and then get_page_token_indices(lens), lens being  *)
(* the recorded lengths, all of them below the capacity of a row; a slot   *)
(* that holds pages is retired with free_pages_resource.  Slots are        *)
(* admitted and retired between steps, and a call that raises ends the     *)
(* loop.                                                                   *)
(***************************************************************************)
\* how many calls the serving loop that keeps to the protocol makes
MaxProtocol == 6

Paced == calls < MaxProtocol /\ calls' = calls + 1

BetweenSteps == last.raised = "" /\ last.op # "fill_new_pages"

WithinRows ==
  \A slot \in Slots :
     lengths[slot] < max_pages_per_sequence * paged_attention_page_size

Admit ==
  \E slot \in Slots, seq_len \in seq_lens :
     /\ BetweenSteps
     /\ live[slot] = {}
     /\ Fits(seq_len)
     /\ Paced
     /\ Broken
     /\ reserve_pages_insert(slot, seq_len)

GrowAll ==
  /\ BetweenSteps
  /\ WithinRows
  /\ Paced
  /\ Broken
  /\ fill_new_pages(lengths)

StepAll ==
  /\ last = ReturnedNone("fill_new_pages", -1)
  /\ Paced
  /\ Run(lengths)
  /\ get_page_token_indices(lengths)

Retire ==
  \E slot \in Slots :
     /\ BetweenSteps
     /\ live[slot] # {}
     /\ Paced
     /\ Broken
     /\ free_pages_resource(slot)

NextProtocol == Admit \/ GrowAll \/ StepAll \/ Retire

SpecProtocol == Init /\ [][NextProtocol]_vars

\* the protocol while no slot is retired
NextDecode == Admit \/ GrowAll \/ StepAll

SpecDecode == Init /\ [][NextDecode]_vars

\* the pages live in the rows of the slots other than slot
LivePagesOfOthers(slot) ==
  UNION { LivePagesOf(other) : other \in Slots \ {slot} }

\* C11: between the calls of the per-step protocol (reserve_pages_insert,
\* then fill_new_pages(lens) and get_page_token_indices(lens) again and
\* again, then free_pages_resource), the live entries of every slot's row are
\* exactly the positions 0 .. ceil(L / page_size) - 1, L being the slot's
\* recorded length, and the pages there belong to that slot alone: they are
\* pairwise different, live in no other slot, and not in the pool.
C11_LiveRowsMatchLength ==
  \A slot \in Slots :
     /\ live[slot]
          = 0 .. CeilDiv(lengths[slot], paged_attention_page_size) - 1
     /\ \A r1 \in live[slot], r2 \in live[slot] :
           r1 # r2 => page_indices[slot][r1] # page_indices[slot][r2]
     /\ LivePagesOf(slot) \cap LivePagesOfOthers(slot) = {}
     /\ LivePagesOf(slot) \cap FreePages = {}

\* C12 as stated: after get_page_token_indices every slot whose recorded
\* length was above 0 has that length + 1 recorded, and every other slot
\* still has 0.
C12_AdvancesRecordedLengths_AsStated ==
  [][\A lens \in [Slots -> seq_lens] :
       get_page_token_indices(lens)
       => \A slot \in Slots :
             lengths'[slot] = IF lengths[slot] > 0 THEN lengths[slot] + 1
                              ELSE 0]_vars

\* the lengths a run of n calls, the first passed the vector from, leaves
AfterRun(from, n) == [slot \in Slots |-> IF from[slot] = 0 THEN 0
                                         ELSE from[slot] + n]

\* C12 (amended): after get_page_token_indices(lens) the recorded length of
\* every slot with lens > 0 is lens + 1 and that of every slot with lens = 0
\* is 0, whatever was recorded before; so when lens is the recorded lengths,
\* every active slot is advanced by one and every inactive slot stays at 0,
\* and n calls in a row, each passed the recorded lengths, advance every
\* active slot by exactly n.
C12_AdvancesRecordedLengths ==
  [][\A lens \in [Slots -> seq_lens] :
       (last'.op = "get_page_token_indices" /\ get_page_token_indices(lens))
       => /\ \A slot \in Slots :
                lengths'[slot] = IF lens[slot] > 0 THEN lens[slot] + 1 ELSE 0
          /\ lens = lengths
               => \A slot \in Slots :
                     lengths'[slot] = IF lengths[slot] > 0
                                      THEN lengths[slot] + 1 ELSE 0
          /\ streak'.n >= 1
          /\ lengths' = AfterRun(streak'.from, streak'.n)]_vars

\* two calls in a row, the second passed the recorded lengths, with one slot
\* active and one not
C12_Witness ==
  /\ last.op = "get_page_token_indices"
  /\ streak.n = 2
  /\ streak.from[0] > 0
  /\ streak.from[1] = 0
  /\ lengths[0] = streak.from[0] + 2
  /\ lengths[1] = 0

\* C13: in the per-step protocol, every page get_page_token_indices emits
\* for a slot that holds a reservation is the entry of a live row of that
\* slot, the row of the slot's newest token, and the page is live in no
\* other slot, at no other row of the slot, and not in the pool; so it is
\* after a prefill of a whole number of pages too.
C13_StepEmitsOwnedPages ==
  [][StepAll
       => LET ret == last'.ret
          IN  \A i \in DOMAIN ret.batch_slots :
                 LET slot == ret.batch_slots[i]
                     page == ret.update_page_indices[i]
                     row == lengths[slot] \div paged_attention_page_size
                 IN  live[slot] # {}
                     => /\ row \in live[slot]
                        /\ page = page_indices[slot][row]
                        /\ page \notin LivePagesOfOthers(slot)
                        /\ page \notin FreePages
                        /\ \A r \in live[slot] \ {row} :
                              page_indices[slot][r] # page]_vars

\* what C14 says of the offsets: the k-th entry (k = 0, 1, ...) has write
\* offset k * page_size + (L mod page_size), inside [k * page_size,
\* (k + 1) * page_size), L being the length passed for the entry's slot
OffsetsInOwnRegion(lens, ret) ==
  \A i \in DOMAIN ret.batch_slots :
     LET k == i - 1
         L == lens[ret.batch_slots[i]]
     IN  /\ k = Cardinality({ s \in Slots : lens[s] > 0
                                             /\ s < ret.batch_slots[i] })
         /\ ret.token_scale_indices[i]
              = k * paged_attention_page_size
                  + (L % paged_attention_page_size)
         /\ ret.token_scale_indices[i] >= k * paged_attention_page_size
         /\ ret.token_scale_indices[i] < (k + 1) * paged_attention_page_size

\* C14 as stated: for the k-th active slot, of length L,
\* get_page_token_indices emits the entry at position L div page_size of the
\* slot's row and the write offset k * page_size + (L mod page_size), which
\* lies in the slot's own region [k * page_size, (k + 1) * page_size).
C14_EntryOfKthActiveSlot_AsStated ==
  [][\A lens \in [Slots -> seq_lens] :
       get_page_token_indices(lens)
       => LET ret == last'.ret
          IN  /\ OffsetsInOwnRegion(lens, ret)
              /\ \A i \in DOMAIN ret.batch_slots :
                    LET slot == ret.batch_slots[i]
                        row == lens[slot] \div paged_attention_page_size
                    IN  /\ row \in Rows
                        /\ ret.update_page_indices[i]
                             = page_indices[slot][row]]_vars

\* C14 (amended): for the k-th active slot, of length L, the write offset is
\* k * page_size + (L mod page_size), in the slot's own region; the page
\* emitted is the entry at position L div page_size of the slot's row when
\* L < max_pages_per_sequence * page_size, and the last entry of the row
\* when L is larger.
C14_EntryOfKthActiveSlot ==
  [][\A lens \in [Slots -> seq_lens] :
       (last'.op = "get_page_token_indices" /\ get_page_token_indices(lens))
       => LET ret == last'.ret
          IN  /\ OffsetsInOwnRegion(lens, ret)
              /\ \A i \in DOMAIN ret.batch_slots :
                    LET slot == ret.batch_slots[i]
                        L == lens[slot]
                        row == L \div paged_attention_page_size
                    IN  ret.update_page_indices[i]
                          = IF L < max_pages_per_sequence
                                     * paged_attention_page_size
                            THEN page_indices[slot][row]
                            ELSE page_indices[slot]
                                             [max_pages_per_sequence - 1]]_vars

\* slot 1 holds two pages for three tokens and is the second active slot:
\* its entry is the page at row 1 and the offset page_size + 1
C14_Witness ==
  /\ last.op = "get_page_token_indices"
  /\ paged_attention_page_size = 2
  /\ last.ret.batch_slots = << 0, 1 >>
  /\ last.ret.token_scale_indices = << 1, 3 >>
  /\ live[1] = {0, 1}
  /\ last.ret.update_page_indices[2] = page_indices[1][1]
  /\ page_indices[1][1] # page_indices[1][0]
  /\ lengths = [s \in Slots |-> IF s = 0 THEN 2 ELSE 4]

\* the store with other tokens in one page
Scribbled(cache, page) ==
  [cache EXCEPT ![page] =
     [i \in 1 .. paged_attention_page_size |-> cache[page][i] + 1]]

\* C15: what get_compress_kv_cache(store, slot) returns is made of the
\* contents of the slot's live pages alone: with other contents in a page
\* that is free, or live in another slot only, the result is the same; so it
\* is for a slot that has been released.
C15_ExportReadsLivePagesOnly ==
  [][\A slot \in Slots, decode_caches \in Held :
       get_compress_kv_cache(decode_caches, slot)
       => \A page \in Pages \ LivePagesOf(slot) :
             _compress_cache(Scribbled(decode_caches, page), lengths[slot],
                             page_indices[slot])
               = last'.ret.tokens]_vars

\* C16: no entry of the page table is ever negative, so the loop of
\* free_pages_resource never leaves early: every call puts one entry per row
\* position, max_pages_per_sequence entries in all, at the tail of the pool,
\* however many of the slot's rows are live.
C16_ReleasePutsWholeRow ==
  [][/\ \A slot \in Slots, r \in Rows :
          page_indices[slot][r] >= 0 /\ page_indices'[slot][r] >= 0
     /\ \A slot \in Slots :
          free_pages_resource(slot)
          => /\ Len(unused_pages') = Len(unused_pages) + max_pages_per_sequence
             /\ unused_pages'
                  = unused_pages
                      \o [i \in 1 .. max_pages_per_sequence |->
                            page_indices[slot][i - 1]]]_vars

\* a slot with one live row of two has been released: four entries in a pool
\* of three pages
C16_Witness ==
  /\ last.op = "free_pages_resource"
  /\ paged_attention_total_num_pages = 3
  /\ max_pages_per_sequence = 2
  /\ calls = 2
  /\ lengths[last.slot] = 1
  /\ unused_pages = << 1, 2, 0, 2 >>

(***************************************************************************)
(* The lifecycle, with a serving loop that may also reserve a slot again   *)
(* while the slot holds pages.                                             *)
(***************************************************************************)
ReserveHeld ==
  \E slot \in Slots, seq_len \in seq_lens :
     /\ live[slot] # {}
     /\ Fits(seq_len)
     /\ Cycled
     /\ reserve_pages_insert(slot, seq_len)

NextReuse == NextLifecycle \/ ReserveHeld

SpecReuse == Init /\ [][NextReuse]_vars

\* C17: reserve_pages_insert(slot, L2) right after a reservation of the same
\* slot that left it with live pages, with pages enough in the pool and a row
\* long enough, raises nothing, writes the pages it takes over row positions
\* 0 .. ceil(L2 / page_size) - 1 and L2 over the length, and puts nothing
\* into the pool; the pages the slot held at those positions are afterwards
\* neither in the pool nor in a live row of any slot.
C17_ReReserveLeaksPages ==
  [][\A slot \in Slots, L2 \in seq_lens :
       ( /\ reserve_pages_insert(slot, L2)
         /\ last.op = "reserve_pages_insert"
         /\ last.slot = slot
         /\ last.raised = ""
         /\ live[slot] # {}
         /\ Fits(L2) )
       => LET n == CeilDiv(L2, paged_attention_page_size)
          IN  /\ last'.raised = ""
              /\ lengths'[slot] = L2
              /\ \A r \in 0 .. n - 1 :
                    page_indices'[slot][r] = unused_pages[r + 1]
              /\ unused_pages' = SubSeq(unused_pages, n + 1, Len(unused_pages))
              /\ \A r \in live[slot] \cap (0 .. n - 1) :
                    /\ page_indices[slot][r] \notin FreePages'
                    /\ page_indices[slot][r] \notin LivePages']_vars

(***************************************************************************)
(* A serving loop that uses every method of the manager but the release:   *)
(* reservation, growth and the step indexer with any arguments, and the    *)
(* padding, the insertion and the export around them.                      *)
(***************************************************************************)
Counted == calls < MaxMethods /\ calls' = calls + 1

NextMethods ==
  \/ \E slot \in Slots, seq_len \in seq_lens :
       Counted /\ Broken /\ reserve_pages_insert(slot, seq_len)
  \/ \E slot \in Slots, seq_len \in seq_lens :
       Counted /\ Broken /\ reserve_pages_decode(slot, seq_len)
  \/ \E lens \in [Slots -> seq_lens] :
       Counted /\ Run(lens) /\ get_page_token_indices(lens)
  \/ PadReserved
  \/ InsertReserved
  \/ Export

SpecMethods == Init /\ [][NextMethods]_vars

\* what C18 says of one tensor: every head has num_pages * page_size
\* positions, the first seq_len are the input's, the others are zero and
\* fewer than page_size, and there are as many heads as before
PaddedAtEnd(array, padded, seq_len, num_pages) ==
  /\ DOMAIN padded = DOMAIN array
  /\ \A h \in DOMAIN array :
        /\ Len(array[h]) = seq_len
        /\ Len(padded[h]) = num_pages * paged_attention_page_size
        /\ Len(padded[h]) - seq_len <= paged_attention_page_size - 1
        /\ SubSeq(padded[h], 1, seq_len) = array[h]
        /\ \A i \in seq_len + 1 .. Len(padded[h]) : padded[h][i] = 0

TakenFromPool ==
  { unused_pages[i] : i \in 1 .. Len(unused_pages) - Len(unused_pages') }

\* C19: every page reserve_pages_decode or fill_new_pages takes from the
\* pool is afterwards an entry of the row of the slot it was taken for, at
\* position new_len / page_size, for every new_len that is a positive
\* multiple of page_size, new_len = max_pages_per_sequence * page_size
\* included.
C19_GrowthRecordsEveryPage ==
  [][/\ \A slot \in Slots, new_len \in seq_lens :
          ( /\ reserve_pages_decode(slot, new_len)
            /\ unused_pages' # unused_pages )
          => /\ new_len \div paged_attention_page_size
                  \in DOMAIN page_indices'[slot]
             /\ page_indices'[slot][new_len \div paged_attention_page_size]
                  = Head(unused_pages)
     /\ \A lens \in [Slots -> seq_lens] :
          fill_new_pages(lens)
          => \A page \in TakenFromPool :
                \E slot \in Slots :
                   /\ lens[slot] \div paged_attention_page_size
                        \in DOMAIN page_indices'[slot]
                   /\ page_indices'[slot]
                                   [lens[slot] \div paged_attention_page_size]
                        = page]_vars

\* a call on slot leaves the row and the length of every other slot alone
OtherRowsAndLengthsKept(slot) ==
  \A other \in Slots \ {slot} :
     /\ page_indices'[other] = page_indices[other]
     /\ lengths'[other] = lengths[other]

\* C20: get_page_token_indices changes the lengths only, not the pool and
\* not a row; get_compress_kv_cache, prefill_cache_padding and
\* insert_prefill_cache change neither the pool, nor a row, nor a length;
\* reserve_pages_insert and reserve_pages_decode on one slot change neither
\* the row nor the length of another slot.
C20_FrameConditions ==
  [][/\ \A lens \in [Slots -> seq_lens] :
          ( /\ last'.op = "get_page_token_indices"
            /\ get_page_token_indices(lens) )
          => UNCHANGED << unused_pages, page_indices >>
     /\ (last'.op = "get_compress_kv_cache" /\ Export)
          => UNCHANGED << unused_pages, page_indices, lengths >>
     /\ (last'.op = "prefill_cache_padding" /\ PadReserved)
          => UNCHANGED << unused_pages, page_indices, lengths >>
     /\ (last'.op = "insert_prefill_cache" /\ InsertReserved)
          => UNCHANGED << unused_pages, page_indices, lengths >>
     /\ \A slot \in Slots, seq_len \in seq_lens :
          ( /\ last'.op = "reserve_pages_insert"
            /\ last'.slot = slot
            /\ reserve_pages_insert(slot, seq_len) )
          => OtherRowsAndLengthsKept(slot)
     /\ \A slot \in Slots, seq_len \in seq_lens :
          ( /\ last'.op = "reserve_pages_decode"
            /\ last'.slot = slot
            /\ reserve_pages_decode(slot, seq_len) )
          => OtherRowsAndLengthsKept(slot)]_vars

\* slot 0 holds two pages for three tokens, and slot 1 has been grown by the
\* third page: the row and the length of slot 0 are as they were
C20_Witness ==
  /\ last = ReturnedNone("reserve_pages_decode", 1)
  /\ paged_attention_total_num_pages = 3
  /\ lengths = [s \in Slots |-> IF s = 0 THEN 3 ELSE 0]
  /\ page_indices[0] = [r \in Rows |-> r]
  /\ page_indices[1][1] = 2
  /\ live = [s \in Slots |-> IF s = 0 THEN {0, 1} ELSE {1}]
  /\ unused_pages = << >>

====
